---- MODULE Spec2Model ----
(***************************************************************************)
(* Model of nwhead/support.py: the support-set classes SupportSet,         *)
(* SupportSetTrain and SupportSetEval.                                     *)
(*                                                                         *)
(* A Python object is a record whose DOMAIN is the set of attributes that  *)
(* have been assigned so far; reading an attribute that is not in the      *)
(* DOMAIN is Python's AttributeError.  Sequences are 1-based here; numpy   *)
(* index values and dense environment indexes keep their 0-based values.   *)
(***************************************************************************)
EXTENDS Integers, Sequences, FiniteSets, TLC

VARIABLES
    self,    \* the object under construction / in use (attribute record)
    built,   \* progress of build_infer_iters: "never", "partial", "done"
    op,      \* the last operation performed, with its arguments
    ret,     \* what the last operation returned or raised
    called   \* the collaborator calls issued by the last operation

vars == <<self, built, op, ret, called>>

----------------------------------------------------------------------------
(* Bounds of the model *)

MaxLen     == 2    \* largest dataset handed to a provider with an env_array
MaxPlain   == 4    \* largest dataset handed to a provider alone
MaxSetLen  == 3    \* largest dataset handed to the base class SupportSet
MaxEnvId   == 1    \* raw environment ids are 0..MaxEnvId
MaxCluster == 2    \* largest n_shot_cluster
MaxDraws   == 2    \* batches drawn from the samplers of one provider
MaxQuery   == 1    \* neighbor queries are the features 0..MaxQuery

NClasses   == 2    \* n_classes handed to the constructors

NShot      == 1    \* n_shot / n_shot_random handed to the constructors
NNeighbors == 1    \* n_neighbors handed to SupportSetEval

EnvIds  == 0..MaxEnvId
Classes == 0..(NClasses - 1)

None == <<>>       \* an absent optional argument

----------------------------------------------------------------------------
(* Python / numpy / torch helpers *)

NoObject == [cls |-> "none"]

HasAttr(obj, a) == a \in DOMAIN obj

\* obj with the attributes of new assigned (new wins)
SetAttrs(obj, new) == new @@ obj

Return(v) == [kind |-> "return", value |-> v]

Raise(exc, msg) == [kind |-> "raise", exc |-> exc, msg |-> msg]

Range(s) == {s[i] : i \in DOMAIN s}

RECURSIVE SortedSeq(_)
SortedSeq(S) ==
    IF S = {} THEN <<>>
    ELSE LET m == CHOOSE x \in S : \A y \in S : x <= y
         IN  <<m>> \o SortedSeq(S \ {m})

\* np.unique / torch.unique: the distinct values in ascending order
Unique(arr) == SortedSeq(Range(arr))

\* (mask).nonzero()[0]: the 0-based positions where the mask holds, ascending
RECURSIVE NonzeroFrom(_, _, _)
NonzeroFrom(arr, v, i) ==
    IF i > Len(arr) THEN <<>>
    ELSE (IF arr[i] = v THEN <<i - 1>> ELSE <<>>) \o NonzeroFrom(arr, v, i + 1)

Nonzero(arr, v) == NonzeroFrom(arr, v, 1)

\* arr[indices] with 0-based index values
Take(arr, indices) == [j \in 1..Len(indices) |-> arr[indices[j] + 1]]

\* np.concatenate / torch.cat of a list of arrays
RECURSIVE Concat(_)
Concat(arrs) ==
    IF arrs = <<>> THEN <<>> ELSE Head(arrs) \o Concat(Tail(arrs))

\* [v] * n
Repeat(v, n) == [j \in 1..n |-> v]

Count(arr, v) == Cardinality({i \in DOMAIN arr : arr[i] = v})

----------------------------------------------------------------------------
(* SupportSet *)

\* A labelled dataset: its items (input id x, label y, metadata m) and the
\* attached label array `targets`.
Dataset(targets) == [type |-> "Dataset", targets |-> targets]

\* DatasetMetadata(support_set, env_array): the dataset with the environment
\* id attached to every item as metadata
DatasetMetadata(support_set, env_array) ==
    [type  |-> "Dataset",
     items |-> [i \in 1..Len(support_set.targets) |->
                  [x |-> i - 1, y |-> support_set.targets[i], m |-> env_array[i]]]]

\* torch.utils.data.Subset(dataset, indices)
Subset(dataset, indices) ==
    [type |-> "Dataset", items |-> Take(dataset.items, indices)]

\* _separate_env_datasets numbering the environments from the highest raw id
\* down, the views staying in ascending order
SeparateEnvDatasetsDescending(env_array, y_array, combined_dataset) ==
    LET uniq == Unique(env_array)
        View(attr) ==
            LET indices == Nonzero(env_array, attr)
            IN  Subset(combined_dataset, indices) @@ [targets |-> Take(y_array, indices)]
    IN  [env_map      |-> [attr \in Range(uniq) |->
                              Len(uniq) - (CHOOSE i \in 1..Len(uniq) : uniq[i] = attr)],
         env_datasets |-> [i \in 1..Len(uniq) |-> View(uniq[i])]]

\* SupportSet._separate_env_datasets: the new env_map and the list of views
SeparateEnvDatasets(env_array, y_array, combined_dataset) ==
    LET uniq == Unique(env_array)
        View(attr) ==
            LET indices == Nonzero(env_array, attr)
            IN  Subset(combined_dataset, indices) @@ [targets |-> Take(y_array, indices)]
    IN  [env_map      |-> [attr \in Range(uniq) |->
                              (CHOOSE i \in 1..Len(uniq) : uniq[i] = attr) - 1],
         env_datasets |-> [i \in 1..Len(uniq) |-> View(uniq[i])]]

\* _combine_env_datasets concatenating the views from the last to the first
CombineEnvDatasetsReversed(obj, env_datasets) ==
    LET n == Len(env_datasets)
    IN  [env_map  |-> [i \in 0..(n - 1) |-> i],
         combined |-> [type    |-> "Dataset",
                       items   |-> Concat([i \in 1..n |-> env_datasets[n + 1 - i].items]),
                       targets |-> Concat([i \in 1..Len(obj.env_datasets) |->
                                   obj.env_datasets[Len(obj.env_datasets) + 1 - i].targets])]]

\* SupportSet._combine_env_datasets: the new env_map and the combined view.
\* The targets are concatenated from self.env_datasets (line 44).
CombineEnvDatasets(obj, env_datasets) ==
    [env_map  |-> [i \in 0..(Len(env_datasets) - 1) |-> i],
     combined |-> [type    |-> "Dataset",
                   items   |-> Concat([i \in 1..Len(env_datasets) |-> env_datasets[i].items]),
                   targets |-> Concat([i \in 1..Len(obj.env_datasets) |->
                                          obj.env_datasets[i].targets])]]

\* The constructor inputs: a single dataset with an environment array, a
\* list of per-environment datasets, or a single dataset alone.
Labels(n) == [1..n -> Classes]

SingleInputs(max) ==
    UNION {{[support_set |-> Dataset(t), env_array |-> None] : t \in Labels(n)}
             : n \in 1..max}

ArrayInputs(max) ==
    UNION {{[support_set |-> Dataset(t), env_array |-> e]
               : t \in Labels(n), e \in [1..n -> EnvIds]} : n \in 1..max}

ListInputs ==
    {[support_set |-> [type |-> "list", datasets |-> <<Dataset(a), Dataset(b)>>],
      env_array   |-> None] : a \in Labels(1), b \in Labels(1)}

\* The inputs tried on the providers and on the base class
Inputs == SingleInputs(MaxPlain) \cup ArrayInputs(MaxLen) \cup ListInputs

SetInputs == SingleInputs(MaxSetLen) \cup ArrayInputs(MaxSetLen) \cup ListInputs

\* SupportSet.__init__: the constructed object, or the exception raised.
\* Line 15 reads support_set.targets before the input shape is looked at; a
\* Python list has no such attribute, so the list branch (lines 26-33) is
\* never entered with a list.  A non-empty single dataset fails the
\* isinstance test of line 26 on its items and takes the last branch.
SupportSetInit(cls, in) ==
    IF in.support_set.type = "list"
    THEN [obj |-> NoObject,
          ret |-> Raise("AttributeError", "'list' object has no attribute 'targets'")]
    ELSE
    LET y_array   == in.support_set.targets
        env_array == IF in.env_array # None THEN in.env_array
                     ELSE Repeat(0, Len(in.support_set.targets))
        combined  == DatasetMetadata(in.support_set, env_array)
        sep       == SeparateEnvDatasets(env_array, y_array, combined)
    IN  [obj |-> [cls              |-> cls,
                  y_array          |-> y_array,
                  n_classes        |-> NClasses,
                  env_array        |-> env_array,
                  combined_dataset |-> combined,
                  env_map          |-> sep.env_map,
                  env_datasets     |-> sep.env_datasets],
         ret |-> Return(None)]

----------------------------------------------------------------------------
(* Collaborators from nwhead/utils.py *)

\* The label of every item of a dataset view, in index order
ItemLabels(dataset) == [i \in 1..Len(dataset.items) |-> dataset.items[i].y]

\* InfiniteUniformClassLoader(dataset, n_shot, n_way): an infinite balanced
\* sampler.  `over` names the view it samples (-1: the combined view, else
\* the dense environment index); pos counts the batches drawn so far.
InfiniteUniformClassLoader(over, labels, n_shot, n_way) ==
    [over |-> over, classes |-> Unique(labels), n_shot |-> n_shot,
     n_way |-> n_way, pos |-> 0]

\* sampler.next(): the advanced sampler and the batch (sx, sy, sm) it yields,
\* n_shot items of every class of the view; sx and sm name the draw.
SamplerNext(s) ==
    [it    |-> [s EXCEPT !.pos = @ + 1],
     batch |-> <<[over |-> s.over, draw |-> s.pos + 1],
                 Concat([i \in 1..Len(s.classes) |-> Repeat(s.classes[i], s.n_shot)]),
                 [over |-> s.over, draw |-> s.pos + 1]>>]

\* FullDataset(env, n_shot_full) and the DataLoader over it
FullDataset(over, n_shot_full) == [over |-> over, n_shot |-> n_shot_full]

DataLoader(dataset) == [dataset |-> dataset, batch_size |-> 128, shuffle |-> FALSE]

\* FeatureDataset(feat, y, meta)
FeatureDataset(feat, y, meta) == [feat |-> feat, y |-> y, meta |-> meta]

\* KNN(feat, y, n_neighbors) / HNSW(feat, y, n_neighbors): a neighbor index
NeighborIndex(name, feat, y, n_neighbors) ==
    [index |-> name, feat |-> feat, y |-> y, n_neighbors |-> n_neighbors]

Dist(a, b) == IF a >= b THEN a - b ELSE b - a

\* The positions of idx.feat ordered by distance to the query q, ties by
\* position: the exact nearest-neighbor order.
RECURSIVE NearestOrder(_, _, _)
NearestOrder(feat, q, left) ==
    IF left = {} THEN <<>>
    ELSE LET i == CHOOSE a \in left : \A b \in left :
                     \/ Dist(feat[a], q) < Dist(feat[b], q)
                     \/ Dist(feat[a], q) = Dist(feat[b], q) /\ a <= b
         IN  <<i>> \o NearestOrder(feat, q, left \ {i})

NumNeighbors(idx) ==
    IF idx.n_neighbors <= Len(idx.feat) THEN idx.n_neighbors ELSE Len(idx.feat)

\* knn(x): features and labels of the n_neighbors nearest items
ExactQuery(idx, q) ==
    LET ord == SubSeq(NearestOrder(idx.feat, q, DOMAIN idx.feat), 1, NumNeighbors(idx))
    IN  <<[j \in 1..Len(ord) |-> idx.feat[ord[j]]], [j \in 1..Len(ord) |-> idx.y[ord[j]]]>>

\* hnsw(x): features and labels of n_neighbors items, the approximate search
\* being free to return any of them: `near` is the set of positions it finds
ApproxChoices(idx) == {S \in SUBSET (DOMAIN idx.feat) : Cardinality(S) = NumNeighbors(idx)}

ApproxQuery(idx, q, near) ==
    LET ord == SortedSeq(near)
    IN  <<[j \in 1..Len(ord) |-> idx.feat[ord[j]]], [j \in 1..Len(ord) |-> idx.y[ord[j]]]>>

\* KMeans(n_clusters, random_state=0).fit(embeddings_class).cluster_centers_:
\* n_clusters centroids, or ValueError when there are fewer samples than
\* clusters.  A centroid is named by the data it was fitted on and its number.
KMeansFits(embeddings_class, n_clusters) == Len(embeddings_class) >= n_clusters

KMeansCentroids(embeddings_class, n_clusters) ==
    [j \in 1..n_clusters |-> [centroid |-> j - 1, data |-> embeddings_class]]

----------------------------------------------------------------------------
(* SupportSetTrain *)

TrainTypes == {"random", "match", "mixmatch", "unbalanced", "other"}

\* SupportSetTrain._build_iter
BuildIter(obj) ==
    IF obj.train_type = "random"
    THEN [type |-> "loader",
          its  |-> <<InfiniteUniformClassLoader(-1, ItemLabels(obj.combined_dataset),
                                                obj.n_shot, obj.n_way)>>]
    ELSE [type |-> "list",
          its  |-> [i \in 1..Len(obj.env_datasets) |->
                      InfiniteUniformClassLoader(i - 1, obj.env_datasets[i].targets,
                                                 obj.n_shot, None)]]

\* SupportSetTrain.__init__
SupportSetTrainInit(in, train_type, n_shot, n_way) ==
    LET base == SupportSetInit("SupportSetTrain", in)
    IN  IF base.ret.kind = "raise" THEN base
        ELSE LET o1 == SetAttrs(base.obj, [train_type |-> train_type,
                                           n_shot |-> n_shot, n_way |-> n_way])
             IN  [obj |-> SetAttrs(o1, [train_iter |-> BuildIter(o1)]),
                  ret |-> Return(None)]

\* SupportSetTrain._verify_sy: "ok", or the exception raised.  The test of
\* line 106 falls through (pass), and line 110 reads self.num_per_class.
VerifySy(obj, sy) ==
    LET unique_labels == Unique(sy)
        counts == [i \in 1..Len(unique_labels) |-> Count(sy, unique_labels[i])]
    IN  IF unique_labels # [i \in 1..obj.n_classes |-> i - 1]
        THEN Raise("AssertionError", "")
        ELSE IF ~HasAttr(obj, "num_per_class")
        THEN Raise("AttributeError", "object has no attribute 'num_per_class'")
        ELSE IF counts # [i \in 1..Len(unique_labels) |-> obj.num_per_class]
        THEN Raise("AssertionError", "")
        ELSE Return(None)

\* torch.equal(env_index, torch.ones_like(env_index) * env_index[0])
AllSame(env_index) == \A i \in DOMAIN env_index : env_index[i] = env_index[1]

\* Lines 88-92 of get_support: the occasional audit, then the return
AuditAndReturn(obj, batch, audit, calls) ==
    LET v == IF audit THEN VerifySy(obj, batch[2]) ELSE Return(None)
    IN  [obj |-> obj, called |-> calls,
         ret |-> IF v.kind = "raise" THEN v ELSE Return(batch)]

\* Draw from the i-th sampler of train_iter and finish the call
DrawFrom(obj, i, audit, call) ==
    LET n == SamplerNext(obj.train_iter.its[i])
    IN  AuditAndReturn([obj EXCEPT !.train_iter.its[i] = n.it], n.batch, audit, <<call>>)

\* SupportSetTrain.get_support(y, env_index).  pick is the outcome of
\* np.random.choice, audit that of random.random() < 0.01.
TrainGetSupport(obj, y, env_index, pick, audit) ==
    IF obj.train_type = "mixmatch"
    THEN DrawFrom(obj, pick, audit, [target |-> "train_iter", index |-> pick - 1, arg |-> <<>>])
    ELSE IF obj.train_type = "match"
    THEN IF ~AllSame(env_index)
         THEN [obj |-> obj, called |-> <<>>, ret |-> Raise("AssertionError", "")]
         ELSE IF env_index[1] \notin DOMAIN obj.env_map
         THEN [obj |-> obj, called |-> <<>>, ret |-> Raise("KeyError", "")]
         ELSE LET meta_idx == obj.env_map[env_index[1]]
              IN  DrawFrom(obj, meta_idx + 1, audit,
                           [target |-> "train_iter", index |-> meta_idx, arg |-> <<>>])
    ELSE IF obj.train_iter.type = "list"
    THEN [obj |-> obj, called |-> <<>>,
          ret |-> Raise("AttributeError", "'list' object has no attribute 'next'")]
    ELSE DrawFrom(obj, 1, audit, [target |-> "train_iter", index |-> 0, arg |-> <<y>>])

----------------------------------------------------------------------------
(* SupportSetEval *)

\* SupportSetEval._build_full_loader
BuildFullLoader(obj) ==
    LET full_datasets == [i \in 1..Len(obj.env_datasets) |->
                             FullDataset(i - 1, obj.n_shot_full)]
    IN  [full_datasets   |-> full_datasets,
         support_loaders |-> [i \in 1..Len(full_datasets) |-> DataLoader(full_datasets[i])]]

\* SupportSetEval.__init__
SupportSetEvalInit(in, n_shot_random, n_shot_full, n_shot_cluster, n_neighbors) ==
    LET base == SupportSetInit("SupportSetEval", in)
    IN  IF base.ret.kind = "raise" THEN base
        ELSE LET o1 == SetAttrs(base.obj, [n_shot_random  |-> n_shot_random,
                                           n_shot_full    |-> n_shot_full,
                                           n_shot_cluster |-> n_shot_cluster,
                                           n_neighbors    |-> n_neighbors])
                 fl == BuildFullLoader(o1)
             IN  [obj |-> SetAttrs(o1, [full_datasets   |-> fl.full_datasets,
                                        support_loaders |-> fl.support_loaders]),
                  ret |-> Return(None)]

\* The arguments the precompute step hands to build_infer_iters: features,
\* labels and metadata of every environment's items in index order, and
\* their concatenation.  The feature of an item is named by the item.
PrecomputeArgs(obj) ==
    LET E == obj.env_datasets
        sfeat_env == [i \in 1..Len(E) |-> [j \in 1..Len(E[i].items) |-> E[i].items[j].x]]
        sy_env    == [i \in 1..Len(E) |-> [j \in 1..Len(E[i].items) |-> E[i].items[j].y]]
        smeta_env == [i \in 1..Len(E) |-> [j \in 1..Len(E[i].items) |-> E[i].items[j].m]]
    IN  [sfeat |-> Concat(sfeat_env), sy |-> Concat(sy_env), smeta |-> Concat(smeta_env),
         sfeat_env |-> sfeat_env, sy_env |-> sy_env, smeta_env |-> smeta_env]

\* embeddings[labels == c]
Masked(embeddings, labels, c) ==
    Take(embeddings, Nonzero(labels, c))

\* The loop of _compute_clusters (lines 196-211) over the remaining classes,
\* with closest=False as line 140 calls it: the centroids are kept verbatim.
RECURSIVE ClusterLoop(_, _, _, _, _, _)
ClusterLoop(embeddings, labels, n_clusters, todo, sfeat, slabel) ==
    IF todo = <<>> THEN Return(<<Concat(sfeat), slabel>>)
    ELSE LET c == Head(todo)
             embeddings_class == Masked(embeddings, labels, c)
         IN  IF ~KMeansFits(embeddings_class, n_clusters)
             THEN Raise("ValueError", "n_samples should be >= n_clusters")
             ELSE ClusterLoop(embeddings, labels, n_clusters, Tail(todo),
                              Append(sfeat, KMeansCentroids(embeddings_class, n_clusters)),
                              slabel \o Repeat(c, n_clusters))

\* _compute_clusters appending each class label once instead of n_clusters
\* times
ComputeClustersOneLabel(obj) ==
    LET r == ClusterLoop(obj.full_feat, obj.full_y, obj.n_shot_cluster,
                         Unique(obj.full_y), <<>>, <<>>)
    IN  IF r.kind = "raise" THEN r ELSE Return(<<r.value[1], Unique(r.value[2])>>)

\* SupportSetEval._compute_clusters
ComputeClusters(obj) ==
    ClusterLoop(obj.full_feat, obj.full_y, obj.n_shot_cluster,
                Unique(obj.full_y), <<>>, <<>>)

\* SupportSetEval.build_infer_iters: the object as the call leaves it, and
\* what it returned or raised
BuildInferIters(obj, a) ==
    LET o1 == SetAttrs(obj, [full_feat     |-> a.sfeat,
                             full_y        |-> a.sy,
                             full_meta     |-> a.smeta,
                             full_feat_sep |-> a.sfeat_env,
                             full_y_sep    |-> a.sy_env,
                             full_meta_sep |-> a.smeta_env])
        cl == ComputeClusters(o1)
    IN  IF cl.kind = "raise" THEN [obj |-> o1, ret |-> cl]
        ELSE LET o2 == SetAttrs(o1, [cluster_feat |-> cl.value[1],
                                     cluster_y    |-> cl.value[2]])
                 feat_dataset == FeatureDataset(o2.full_feat, o2.full_y, o2.full_meta)
                 o3 == SetAttrs(o2, [random_iter |->
                           InfiniteUniformClassLoader(-1, feat_dataset.y,
                                                      o2.n_shot_random, None)])
             IN  [obj |-> SetAttrs(o3,
                            [knn  |-> NeighborIndex("knn", o3.full_feat, o3.full_y,
                                                    o3.n_neighbors),
                             hnsw |-> NeighborIndex("hnsw", o3.full_feat, o3.full_y,
                                                    o3.n_neighbors)]),
                  ret |-> Return(None)]

EvalModes == {"random", "full", "cluster", "ensemble", "knn", "hnsw"}

NotPrecomputed == Raise("AttributeError", "Did you run precompute()?")

\* What the except clause of line 170 makes of an exception raised in the try
Translate(e) == IF e.kind = "raise" /\ e.exc = "AttributeError" THEN NotPrecomputed ELSE e

\* self.knn(x) / self.hnsw(x).  Line 164 and 166 pass x on as it is; with
\* x absent the index fails on it, with the exception `fault`.
IndexCall(idx, x, near, fault) ==
    IF x = None THEN Raise(fault, "query is None")
    ELSE IF idx.index = "knn" THEN Return(ExactQuery(idx, x[1]))
    ELSE Return(ApproxQuery(idx, x[1], near))

\* get_support cutting the cached labels down to n_shot_full as it returns
GotTruncating(obj, sfeat, sy) ==
    [obj    |-> [obj EXCEPT !.full_y = SubSeq(@, 1, obj.n_shot_full)],
     called |-> <<>>,
     ret    |-> Return(<<sfeat, sy>>)]

\* Lines 158, 160, 162 and 169: the cached pair is read and returned
Got(obj, sfeat, sy) == [obj |-> obj, called |-> <<>>, ret |-> Return(<<sfeat, sy>>)]

\* SupportSetEval.get_support(mode, x)
EvalGetSupport(obj, mode, x, near, fault) ==
    LET Missing == [obj |-> obj, called |-> <<>>, ret |-> NotPrecomputed]
    IN  IF mode = "random"
        THEN IF ~HasAttr(obj, "random_iter") THEN Missing
             ELSE LET n == SamplerNext(obj.random_iter)
                  IN  [obj    |-> [obj EXCEPT !.random_iter = n.it],
                       called |-> <<[target |-> "random_iter", arg |-> <<>>]>>,
                       ret    |-> Return(<<n.batch[1], n.batch[2]>>)]
        ELSE IF mode = "full"
        THEN IF ~HasAttr(obj, "full_feat") \/ ~HasAttr(obj, "full_y") THEN Missing
             ELSE Got(obj, obj.full_feat, obj.full_y)
        ELSE IF mode = "cluster"
        THEN IF ~HasAttr(obj, "cluster_feat") \/ ~HasAttr(obj, "cluster_y") THEN Missing
             ELSE Got(obj, obj.cluster_feat, obj.cluster_y)
        ELSE IF mode = "ensemble"
        THEN IF ~HasAttr(obj, "full_feat_sep") \/ ~HasAttr(obj, "full_y_sep") THEN Missing
             ELSE Got(obj, obj.full_feat_sep, obj.full_y_sep)
        ELSE IF mode \in {"knn", "hnsw"}
        THEN IF ~HasAttr(obj, mode) THEN Missing
             ELSE [obj    |-> obj,
                   called |-> <<[target |-> mode, arg |-> x]>>,
                   ret    |-> Translate(IndexCall(obj[mode], x, near, fault))]
        ELSE [obj |-> obj, called |-> <<>>, ret |-> Raise("NotImplementedError", "")]

----------------------------------------------------------------------------
(* The operations *)

Init ==
    /\ self = NoObject
    /\ built = "never"
    /\ op = [name |-> "none"]
    /\ ret = Return(None)
    /\ called = <<>>

\* SupportSetTrain(support_set, n_classes, train_type, n_shot, env_array=...)
ConstructTrain ==
    /\ op.name = "none"
    /\ \E in \in Inputs, train_type \in TrainTypes :
         LET r == SupportSetTrainInit(in, train_type, NShot, None)
         IN  /\ self' = r.obj
             /\ ret' = r.ret
             /\ op' = [name |-> "SupportSetTrain", shape |-> in.support_set.type,
                       env_array |-> in.env_array]
    /\ UNCHANGED <<built, called>>

\* SupportSetEval(support_set, n_classes, n_shot_random, n_shot_full,
\*                n_shot_cluster, n_neighbors, env_array=...)
ConstructEval ==
    /\ op.name = "none"
    /\ \E in \in Inputs, n_shot_cluster \in 1..MaxCluster :
         LET r == SupportSetEvalInit(in, NShot, NShot, n_shot_cluster, NNeighbors)
         IN  /\ self' = r.obj
             /\ ret' = r.ret
             /\ op' = [name |-> "SupportSetEval", shape |-> in.support_set.type,
                       env_array |-> in.env_array]
    /\ UNCHANGED <<built, called>>

TotalDraws(its) ==
    LET RECURSIVE Sum(_)
        Sum(i) == IF i > Len(its) THEN 0 ELSE its[i].pos + Sum(i + 1)
    IN  Sum(1)

\* The environment-id batches handed to the training provider
EnvBatches == [1..2 -> EnvIds]

\* The (y, env_index) arguments tried on a provider: the argument its policy
\* never reads is held at one value
TrainArgs(obj) ==
    IF obj.train_type = "match" THEN {<<0, b>> : b \in EnvBatches}
    ELSE IF obj.train_type = "mixmatch" THEN {<<0, <<0, 0>>>>}
    ELSE {<<y, <<0, 0>>>> : y \in Classes}

\* The outcomes of np.random.choice(self.train_iter), drawn under mixmatch
Picks(obj) ==
    IF obj.train_type = "mixmatch" THEN 1..Len(obj.train_iter.its) ELSE {1}

\* SupportSetTrain.get_support(y, env_index)
TrainGet ==
    /\ self.cls = "SupportSetTrain"
    /\ TotalDraws(self.train_iter.its) < MaxDraws
    /\ \E a \in TrainArgs(self), pick \in Picks(self), audit \in BOOLEAN :
         LET r == TrainGetSupport(self, a[1], a[2], pick, audit)
         IN  /\ self' = r.obj
             /\ ret' = r.ret
             /\ called' = r.called
             /\ op' = [name |-> "train.get_support", audit |-> audit,
                       y |-> a[1], env_index |-> a[2]]
    /\ UNCHANGED built

\* SupportSetEval.build_infer_iters(...)
Build ==
    /\ self.cls = "SupportSetEval"
    /\ LET r == BuildInferIters(self, PrecomputeArgs(self))
       IN  /\ self' = r.obj
           /\ ret' = r.ret
           /\ built' = IF r.ret.kind = "raise" THEN "partial" ELSE "done"
    /\ op' = [name |-> "build_infer_iters"]
    /\ called' = <<>>

\* The queries handed to the neighbor modes: absent, or a feature
Queries == {None} \cup {<<q>> : q \in 0..MaxQuery}

\* The (mode, x) arguments tried: the other modes are called without x
EvalArgs ==
    {<<m, None>> : m \in EvalModes \cup {"other"}}
        \cup {<<m, x>> : m \in {"knn", "hnsw"}, x \in Queries}

\* What the approximate index may find for the call, and how an index may
\* fail on an absent query
NearChoices(obj, a) ==
    IF a[1] = "hnsw" /\ a[2] # None /\ HasAttr(obj, "hnsw")
    THEN ApproxChoices(obj.hnsw) ELSE {{}}

Faults(obj, a) ==
    IF a[1] \in {"knn", "hnsw"} /\ a[2] = None /\ HasAttr(obj, a[1])
    THEN {"TypeError", "AttributeError"} ELSE {"TypeError"}

\* SupportSetEval.get_support(mode, x)
EvalGet ==
    /\ self.cls = "SupportSetEval"
    /\ HasAttr(self, "random_iter") => self.random_iter.pos < MaxDraws
    /\ \E a \in EvalArgs :
         \E near \in NearChoices(self, a), fault \in Faults(self, a) :
           LET r == EvalGetSupport(self, a[1], a[2], near, fault)
           IN  /\ self' = r.obj
               /\ ret' = r.ret
               /\ called' = r.called
               /\ op' = [name |-> "eval.get_support", mode |-> a[1], x |-> a[2]]
    /\ UNCHANGED built

Next == ConstructTrain \/ ConstructEval \/ TrainGet \/ Build \/ EvalGet

Spec == Init /\ [][Next]_vars

----------------------------------------------------------------------------
(* The base class alone: construction, then the recombination path *)

\* SupportSet(support_set, n_classes, env_array=...)
ConstructSet ==
    /\ op.name = "none"
    /\ \E in \in SetInputs :
         LET r == SupportSetInit("SupportSet", in)
         IN  /\ self' = r.obj
             /\ ret' = r.ret
             /\ op' = [name |-> "SupportSet", shape |-> in.support_set.type,
                       env_array |-> in.env_array]
    /\ UNCHANGED <<built, called>>

\* self._combine_env_datasets(self.env_datasets) on a constructed SupportSet
Recombine ==
    /\ self.cls = "SupportSet"
    /\ op.name = "SupportSet"
    /\ LET r == CombineEnvDatasets(self, self.env_datasets)
       IN  /\ self' = [self EXCEPT !.env_map = r.env_map]
           /\ ret' = Return(r.combined)
    /\ op' = [name |-> "_combine_env_datasets"]
    /\ UNCHANGED <<built, called>>

NextSet == ConstructSet \/ Recombine

SpecSet == Init /\ [][NextSet]_vars

----------------------------------------------------------------------------
(* Properties *)

IsProvider == self.cls \in {"SupportSetTrain", "SupportSetEval"}

SupportOfMode(o, mode) ==
    IF mode = "full" THEN <<o.full_feat, o.full_y>>
    ELSE IF mode = "cluster" THEN <<o.cluster_feat, o.cluster_y>>
    ELSE <<o.full_feat_sep, o.full_y_sep>>

\* C1: while build_infer_iters has not completed (never called, or raised
\* part-way), get_support fails in every one of the six modes with the
\* "not precomputed" error and returns nothing.
C1_FailsBeforePrecompute ==
    (op.name = "eval.get_support" /\ op.mode \in EvalModes /\ built # "done")
        => ret = NotPrecomputed

\* The part of C1 about a provider on which build_infer_iters was never called
C1_FailsWhenNeverBuilt ==
    (op.name = "eval.get_support" /\ op.mode \in EvalModes /\ built = "never")
        => ret = NotPrecomputed

TotalItems(views) ==
    LET RECURSIVE Sum(_)
        Sum(i) == IF i > Len(views) THEN 0 ELSE Len(views[i].items) + Sum(i + 1)
    IN  Sum(1)

\* C2: for each of the three input shapes construction succeeds, the sizes of
\* the environment views add up to the size of the combined view, and every
\* item of a view carries the label the view stores at its local index.
C2_ViewsPartitionCombined ==
    op.name = "SupportSet" =>
        /\ ret.kind = "return"
        /\ Len(self.combined_dataset.items) = TotalItems(self.env_datasets)
        /\ \A i \in DOMAIN self.env_datasets :
             LET env == self.env_datasets[i]
             IN  /\ Len(env.targets) = Len(env.items)
                 /\ \A j \in DOMAIN env.items :
                      /\ env.items[j] = self.combined_dataset.items[env.items[j].x + 1]
                      /\ env.targets[j] = env.items[j].y
        /\ \A k \in DOMAIN self.combined_dataset.items :
             Cardinality({<<i, j>> \in (DOMAIN self.env_datasets) \X (1..MaxSetLen) :
                             /\ j <= Len(self.env_datasets[i].items)
                             /\ self.env_datasets[i].items[j].x = k - 1}) = 1

\* C3: on a constructed provider env_map maps exactly the distinct raw ids of
\* the environment array onto 0..n-1 in ascending order, there is one view
\* per id, the view of id e holds exactly the items whose id is e, and this
\* stays so after every get_support call.
C3_EnvMapBijection ==
    IsProvider =>
        LET ids == Range(self.env_array)
            n   == Cardinality(ids)
        IN  /\ DOMAIN self.env_map = ids
            /\ {self.env_map[e] : e \in ids} = 0..(n - 1)
            /\ \A a \in ids, b \in ids : a < b => self.env_map[a] < self.env_map[b]
            /\ Len(self.env_datasets) = n
            /\ \A e \in ids :
                 LET view == self.env_datasets[self.env_map[e] + 1]
                 IN  /\ {view.items[j].x : j \in DOMAIN view.items}
                          = {i - 1 : i \in {k \in DOMAIN self.env_array : self.env_array[k] = e}}
                     /\ Len(view.items)
                          = Cardinality({k \in DOMAIN self.env_array : self.env_array[k] = e})

C3_Witness ==
    /\ IsProvider
    /\ op.name \in {"train.get_support", "eval.get_support"}
    /\ ret.kind = "return"
    /\ Cardinality(DOMAIN self.env_map) = 2

NonDecreasing(arr) == \A i \in DOMAIN arr, j \in DOMAIN arr : i < j => arr[i] <= arr[j]

\* The positions of arr ordered by value, ties by position
StableOrder(arr) ==
    CHOOSE p \in [DOMAIN arr -> DOMAIN arr] :
        /\ \A i \in DOMAIN arr, j \in DOMAIN arr : i # j => p[i] # p[j]
        /\ \A i \in DOMAIN arr, j \in DOMAIN arr : i < j =>
             \/ arr[p[i]] < arr[p[j]]
             \/ arr[p[i]] = arr[p[j]] /\ p[i] < p[j]

\* C4 as stated: separating and recombining gives back the original label
\* array in the original order, for every environment-id array.
C4_RoundTripIdentity ==
    op.name = "_combine_env_datasets" => ret.value.targets = self.y_array

\* C4 as amended: separating and recombining gives the original labels
\* ordered by environment id, each environment's labels in their original
\* order; that is the original array when the ids are non-decreasing.
C4_RoundTripGrouped ==
    op.name = "_combine_env_datasets" =>
        LET p == StableOrder(self.env_array)
        IN  /\ ret.value.targets = [i \in DOMAIN self.y_array |-> self.y_array[p[i]]]
            /\ NonDecreasing(self.env_array) => ret.value.targets = self.y_array

C4_Witness ==
    /\ op.name = "_combine_env_datasets"
    /\ self.env_array = <<0, 1, 0>>
    /\ ret.value.targets # self.y_array

\* A batch holding every class exactly n_shot times
Balanced(sy, n_classes, n_shot) ==
    /\ Range(sy) = 0..(n_classes - 1)
    /\ \A c \in Range(sy) : Count(sy, c) = n_shot

\* The labels of a batch of the sampler at dense index i
BatchLabels(i) == SamplerNext(self.train_iter.its[i + 1]).batch[2]

\* C5: under match a batch of one raw id e draws from the sampler at
\* env_map[e] alone and returns its batch; a batch of two different ids
\* fails with the precondition (assertion) error and draws from no sampler.
\* Stated for environments whose batches hold every class n_shot times, the
\* batches the audit is meant to pass.
C5_MatchDrawsOneSampler ==
    (op.name = "train.get_support" /\ self.train_type = "match"
        /\ op.env_index[1] \in DOMAIN self.env_map) =>
        IF AllSame(op.env_index)
        THEN Balanced(BatchLabels(self.env_map[op.env_index[1]]),
                      self.n_classes, self.n_shot) =>
                 /\ ret.kind = "return"
                 /\ ret.value[1].over = self.env_map[op.env_index[1]]
                 /\ Len(called) = 1
                 /\ called[1].index = self.env_map[op.env_index[1]]
        ELSE /\ ret = Raise("AssertionError", "")
             /\ called = <<>>

\* C6: under unbalanced, or any policy outside random, match and mixmatch,
\* the provider holds one sampler over the combined view and every
\* get_support call returns a batch drawn from it with the target label.
C6_UnbalancedSingleSampler ==
    (self.cls = "SupportSetTrain" /\ self.train_type \notin {"random", "match", "mixmatch"}) =>
        /\ self.train_iter.type = "loader"
        /\ self.train_iter.its[1].over = -1
        /\ op.name = "train.get_support" =>
             /\ ret.kind = "return"
             /\ called = <<[target |-> "train_iter", index |-> 0, arg |-> <<op.y>>]>>

\* C7 as stated: after a completed build the prototype set has
\* n_classes * k rows and the labels 0..n_classes-1 ascending, each k times.
C7_ClusterRowsAllClasses ==
    built = "done" =>
        LET k == self.n_shot_cluster
        IN  /\ Len(self.cluster_feat) = self.n_classes * k
            /\ Len(self.cluster_y) = self.n_classes * k
            /\ \A i \in DOMAIN self.cluster_y : self.cluster_y[i] = (i - 1) \div k

\* C7 as amended: after a completed build the prototype set has d * k rows,
\* d the number of distinct labels present in the full label set, and the
\* aligned label array lists the present labels ascending, each k times
\* contiguously; with every class present that is n_classes * k rows.
C7_ClusterRowsPresentClasses ==
    built = "done" =>
        LET k       == self.n_shot_cluster
            present == Range(self.full_y)
            Rank(c) == Cardinality({b \in present : b < c})
        IN  /\ Len(self.cluster_feat) = Cardinality(present) * k
            /\ Len(self.cluster_y) = Len(self.cluster_feat)
            /\ \A i \in DOMAIN self.cluster_y :
                 /\ self.cluster_y[i] \in present
                 /\ Rank(self.cluster_y[i]) = (i - 1) \div k
            /\ present = Classes => Len(self.cluster_feat) = self.n_classes * k

C7_Witness ==
    /\ built = "done"
    /\ self.n_shot_cluster = 2
    /\ self.cluster_y = <<0, 0, 1, 1>>

\* C8: after a completed build get_support is a closed dispatch: full,
\* cluster and ensemble return the stored values, random the next batch of
\* the random sampler, knn and hnsw the answer of their index to the query;
\* any other mode is an unsupported-mode error, and knn or hnsw without a
\* query fail without querying the index.
C8_ClosedDispatch ==
    (op.name = "eval.get_support" /\ built = "done") =>
        IF op.mode \in {"full", "cluster", "ensemble"}
        THEN ret = Return(SupportOfMode(self, op.mode)) /\ called = <<>>
        ELSE IF op.mode = "random"
        THEN /\ ret.kind = "return"
             /\ ret.value[1] = [over |-> -1, draw |-> self.random_iter.pos]
             /\ called = <<[target |-> "random_iter", arg |-> <<>>]>>
        ELSE IF op.mode \in {"knn", "hnsw"}
        THEN IF op.x = None
             THEN ret.kind = "raise" /\ called = <<>>
             ELSE /\ ret.kind = "return"
                  /\ Len(ret.value[1]) = NumNeighbors(self[op.mode])
                  /\ Range(ret.value[1]) \subseteq Range(self.full_feat)
                  /\ called = <<[target |-> op.mode, arg |-> op.x]>>
        ELSE ret = Raise("NotImplementedError", "")

\* The labels of the batch the last training get_support drew
SampledLabels == SamplerNext(self.train_iter.its[called[1].index + 1]).batch[2]

\* C9: when the audit runs, it is skipped under unbalanced; under the other
\* policies a batch holding every class n_shot times passes and is returned,
\* and any other batch raises the assertion error; nothing else is raised.
C9_AuditOutcome ==
    (op.name = "train.get_support" /\ op.audit /\ called # <<>>) =>
        IF self.train_type = "unbalanced" \/ Balanced(SampledLabels, self.n_classes, self.n_shot)
        THEN ret = Return(SamplerNext([self.train_iter.its[called[1].index + 1]
                                          EXCEPT !.pos = @ - 1]).batch)
        ELSE ret = Raise("AssertionError", "")

CacheAttrs ==
    {"full_feat", "full_y", "full_meta", "full_feat_sep", "full_y_sep", "full_meta_sep",
     "cluster_feat", "cluster_y", "knn", "hnsw"}

\* C10: once build_infer_iters has completed, a get_support call in any
\* mode leaves the cached features, labels, metadata, prototypes and both
\* indexes as they are and changes at most the position of the random
\* sampler; full, cluster and ensemble return the cached values.
C10_CacheReadOnly ==
    [][(built = "done" /\ op'.name = "eval.get_support") =>
          /\ \A a \in CacheAttrs : self'[a] = self[a]
          /\ self' = [self EXCEPT !.random_iter.pos = self'.random_iter.pos]
          /\ op'.mode \in {"full", "cluster", "ensemble"} =>
               ret' = Return(SupportOfMode(self, op'.mode))]_vars

C10_Witness ==
    /\ built = "done"
    /\ op.name = "eval.get_support"
    /\ op.mode = "cluster"
    /\ ret = Return(<<self.cluster_feat, self.cluster_y>>)
    /\ self.random_iter.pos >= 1

====
